---- MODULE Spec2Model ----
(***************************************************************************)
(* SH110x OLED display driver (display/display.go): the resident           *)
(* framebuffer, the rasterizer and text renderer, and the paged bus-write  *)
(* protocol (probe, initialize, commit), as a state machine.               *)
(*                                                                         *)
(* Byte slices are sequences of naturals 0..255; Go index i is TLA+ index  *)
(* i+1.  Every call on the I2C bus (OpenHandle, Read, Write, Close) is one *)
(* step of the calling goroutine, and its outcome (ok / error, the status  *)
(* byte read) is chosen by the environment.                                *)
(***************************************************************************)
EXTENDS Integers, Sequences, FiniteSets, TLC

(***************************************************************************)
(* Program constants                                                       *)
(***************************************************************************)
BufLen == 1024
WIDTH == 64
LENGTH == 128
NumInits == 4
AnimEnd == 15
ResetStatus == 71
GlyphCount == 95

(***************************************************************************)
(* Bounds of the model                                                     *)
(***************************************************************************)
\* public operations one caller issues in a run
MaxOps == 2
\* bus calls that fail in a run
MaxFaults == 1
\* status reads in a run that find the controller reset
MaxResets == 1

(***************************************************************************)
(* Pure helpers                                                            *)
(***************************************************************************)
Pow2(k) == CASE k = 0 -> 1 [] k = 1 -> 2 [] k = 2 -> 4 [] k = 3 -> 8
             [] k = 4 -> 16 [] k = 5 -> 32 [] k = 6 -> 64 [] OTHER -> 128

BitSet(b, k) == (b \div Pow2(k)) % 2 = 1

\* b + (1 << k) in place of b | (1 << k)
OrBitAdd(b, k) == (b + Pow2(k)) % 256

\* b | (1 << k) on a byte
OrBit(b, k) == IF BitSet(b, k) THEN b ELSE b + Pow2(k)

\* make([]byte, 1024)
blank == [i \in 1..BufLen |-> 0]

\* Go slice expression s[lo:hi]
Slice(s, lo, hi) == [i \in 1..(hi - lo) |-> s[lo + i]]

AbsInt(n) == IF n < 0 THEN -n ELSE n

(***************************************************************************)
(* Rasterizer                                                              *)
(***************************************************************************)
\* for v >= span { v -= span }
RECURSIVE wrapDown(_, _)
wrapDown(v, span) == IF v >= span THEN wrapDown(v - span, span) ELSE v

\* for v < 0 { v += span }
RECURSIVE wrapUp(_, _)
wrapUp(v, span) == IF v < 0 THEN wrapUp(v + span, span) ELSE v

\* the two wrap loops writePixel runs on each coordinate
WrapCoord(v, span) == wrapUp(wrapDown(v, span), span)

\* writePixel without its first statement x, y = y, x
writePixelNoSwap(x, y, buf) ==
    LET xs == WrapCoord(x, WIDTH)
        ys == WrapCoord(y, LENGTH)
        idx0 == xs + (ys \div 8) * WIDTH
        blen == (WIDTH * LENGTH) \div 8
        idx == wrapDown(idx0, blen)
    IN  [buf EXCEPT ![idx + 1] = OrBit(buf[idx + 1], ys % 8)]

\* writePixel with LENGTH as the stride of a byte row: idx := x + (y/8)*LENGTH
writePixelStride(x, y, buf) ==
    LET xs == WrapCoord(y, WIDTH)
        ys == WrapCoord(x, LENGTH)
        idx0 == xs + (ys \div 8) * LENGTH
        blen == (WIDTH * LENGTH) \div 8
        idx == wrapDown(idx0, blen)
    IN  [buf EXCEPT ![idx + 1] = OrBit(buf[idx + 1], ys % 8)]

writePixel(x, y, buf) ==
    LET xs == WrapCoord(y, WIDTH)
        ys == WrapCoord(x, LENGTH)
        idx0 == xs + (ys \div 8) * WIDTH
        blen == (WIDTH * LENGTH) \div 8
        idx == wrapDown(idx0, blen)
    IN  [buf EXCEPT ![idx + 1] = OrBit(buf[idx + 1], ys % 8)]

\* the loop of writeLine with x0 < x1 as its condition
RECURSIVE lineLoopExcl(_, _, _, _, _, _)
lineLoopExcl(s, x1, dx, dy, ystep, steep) ==
    IF s.x0 >= x1 THEN s.buf
    ELSE LET b1 == IF steep THEN writePixel(s.y0, s.x0, s.buf)
                             ELSE writePixel(s.x0, s.y0, s.buf)
             e1 == s.err - dy
         IN  lineLoopExcl([x0  |-> s.x0 + 1,
                           y0  |-> IF e1 < 0 THEN s.y0 + ystep ELSE s.y0,
                           err |-> IF e1 < 0 THEN e1 + dx ELSE e1,
                           buf |-> b1],
                          x1, dx, dy, ystep, steep)

\* the for x0 <= x1 loop of writeLine; s holds the loop variables x0, y0, err, buf
RECURSIVE lineLoop(_, _, _, _, _, _)
lineLoop(s, x1, dx, dy, ystep, steep) ==
    IF s.x0 > x1 THEN s.buf
    ELSE LET b1 == IF steep THEN writePixel(s.y0, s.x0, s.buf)
                             ELSE writePixel(s.x0, s.y0, s.buf)
             e1 == s.err - dy
         IN  lineLoop([x0  |-> s.x0 + 1,
                       y0  |-> IF e1 < 0 THEN s.y0 + ystep ELSE s.y0,
                       err |-> IF e1 < 0 THEN e1 + dx ELSE e1,
                       buf |-> b1],
                      x1, dx, dy, ystep, steep)

\* writeLine with if x0 > x1 { x0, x1 = x1, x0 } and the y's left as they are
writeLineSwapX(x0, y0, x1, y1, buf) ==
    LET steep == AbsInt(y1 - y0) > AbsInt(x1 - x0)
        ax0 == IF steep THEN y0 ELSE x0
        ay0 == IF steep THEN x0 ELSE y0
        ax1 == IF steep THEN y1 ELSE x1
        ay1 == IF steep THEN x1 ELSE y1
        swap == ax0 > ax1
        bx0 == IF swap THEN ax1 ELSE ax0
        bx1 == IF swap THEN ax0 ELSE ax1
        dx == bx1 - bx0
        dy == AbsInt(ay1 - ay0)
        ystep == IF ay0 < ay1 THEN 1 ELSE -1
    IN  lineLoop([x0 |-> bx0, y0 |-> ay0, err |-> dx \div 2, buf |-> buf],
                 bx1, dx, dy, ystep, steep)

writeLine(x0, y0, x1, y1, buf) ==
    LET steep == AbsInt(y1 - y0) > AbsInt(x1 - x0)
        ax0 == IF steep THEN y0 ELSE x0
        ay0 == IF steep THEN x0 ELSE y0
        ax1 == IF steep THEN y1 ELSE x1
        ay1 == IF steep THEN x1 ELSE y1
        swap == ax0 > ax1
        bx0 == IF swap THEN ax1 ELSE ax0
        bx1 == IF swap THEN ax0 ELSE ax1
        by0 == IF swap THEN ay1 ELSE ay0
        by1 == IF swap THEN ay0 ELSE ay1
        dx == bx1 - bx0
        dy == AbsInt(by1 - by0)
        ystep == IF by0 < by1 THEN 1 ELSE -1
    IN  lineLoop([x0 |-> bx0, y0 |-> by0, err |-> dx \div 2, buf |-> buf],
                 bx1, dx, dy, ystep, steep)

\* the for i := x; i < x+w; i++ loop of writeFillRect; s holds i and buf
RECURSIVE rectLoop(_, _, _, _)
rectLoop(s, xend, y, h) ==
    IF s.i >= xend THEN s.buf
    ELSE rectLoop([i |-> s.i + 1, buf |-> writeLine(s.i, y, s.i, y + h, s.buf)],
                  xend, y, h)

writeFillRect(x, y, w, h, buf) == rectLoop([i |-> x, buf |-> buf], x + w, y, h)

(***************************************************************************)
(* Glyph atlas and text renderer.  The font tables chars and freemono are  *)
(* not part of the sources at hand; the atlas below follows the glyph      *)
(* record of the design (byteOffset, width, height, advance, xOffset,      *)
(* yOffset) with a fixed-advance face.                                     *)
(***************************************************************************)
GlyphAdvance == 11

freemono(bo) == CASE bo = 0 -> 170 [] bo = 1 -> 168 [] bo = 2 -> 12 [] OTHER -> 0

chars(charIdx) ==
    CASE charIdx = 0 -> <<0, 0, 0, GlyphAdvance, 0, 1>>
      [] charIdx = 1 -> <<0, 2, 11, GlyphAdvance, 4, -10>>
      [] OTHER       -> <<3, 0, 0, GlyphAdvance, 0, 0>>

\* the yy / xx loops over one glyph; s holds bit (the bits consumed, yy*w + xx),
\* bo, bits and buf
RECURSIVE glyphLoop(_, _, _, _, _)
glyphLoop(s, w, h, px, py) ==
    IF s.bit >= w * h THEN s.buf
    ELSE LET fetch == (s.bit % 8 = 0)
             cur   == IF fetch THEN freemono(s.bo) ELSE s.bits
             xx    == s.bit % w
             yy    == s.bit \div w
         IN  glyphLoop([bit  |-> s.bit + 1,
                        bo   |-> IF fetch THEN s.bo + 1 ELSE s.bo,
                        bits |-> (cur * 2) % 256,
                        buf  |-> IF cur \div 128 = 1
                                 THEN writePixel(px + xx, py - yy, s.buf)
                                 ELSE s.buf],
                       w, h, px, py)

\* the loop of writeString with charIdx > 95 as the test for a byte without glyph
RECURSIVE stringLoopOffByOne(_, _, _)
stringLoopOffByOne(s, y, char) ==
    IF char = <<>> THEN s.buf
    ELSE LET cb == Head(char)
         IN  IF cb < 32 \/ cb - 32 > GlyphCount
             THEN stringLoopOffByOne(s, y, Tail(char))
             ELSE LET cInfo == chars(cb - 32)
                  IN  stringLoopOffByOne(
                        [x   |-> s.x + cInfo[4],
                         buf |-> glyphLoop([bit |-> 0, bo |-> cInfo[1], bits |-> 0,
                                            buf |-> s.buf],
                                           cInfo[2], cInfo[3],
                                           s.x + cInfo[5], y - cInfo[6])],
                        y, Tail(char))

\* the loop of writeString over the bytes of the text; s holds x and buf
RECURSIVE stringLoop(_, _, _)
stringLoop(s, y, char) ==
    IF char = <<>> THEN s.buf
    ELSE LET cb == Head(char)
         IN  IF cb < 32 \/ cb - 32 >= GlyphCount
             THEN stringLoop(s, y, Tail(char))
             ELSE LET cInfo == chars(cb - 32)
                  IN  stringLoop(
                        [x   |-> s.x + cInfo[4],
                         buf |-> glyphLoop([bit |-> 0, bo |-> cInfo[1], bits |-> 0,
                                            buf |-> s.buf],
                                           cInfo[2], cInfo[3],
                                           s.x + cInfo[5], y - cInfo[6])],
                        y, Tail(char))

writeString(x, y, char, buf) == stringLoop([x |-> x, buf |-> buf], y, char)

(***************************************************************************)
(* Protocol byte sequences                                                 *)
(***************************************************************************)
PageFirst == 176
PageLast == 191
DataMode == 64
ChunkA == 31
ChunkB == 62
PageBytes == 64

contrastCmd == <<0, 129, 47>>

initCmd == <<0, 174, 213, 81, 32, 129, 79, 173, 138, 160, 192, 220, 0,
             211, 96, 217, 34, 219, 53, 168, 63, 164, 166>>

displayOnCmd == <<0, 175>>

\* the three writes of initDisp, in program order
initWrites == <<contrastCmd, initCmd, displayOnCmd>>

\* the page loop with its register counter one ahead of the page it sends
pageWriteWrongPage(b, n) ==
    LET it  == n \div 4
        reg == PageFirst + it + 1
    IN  CASE n % 4 = 0 -> <<0, reg, 16, 0>>
          [] n % 4 = 1 -> <<DataMode>> \o Slice(b, 0 + it * PageBytes, ChunkA + it * PageBytes)
          [] n % 4 = 2 -> <<DataMode>> \o Slice(b, ChunkA + it * PageBytes, ChunkB + it * PageBytes)
          [] OTHER     -> <<DataMode, b[ChunkB + it * PageBytes + 1],
                            b[ChunkB + 1 + it * PageBytes + 1]>>

\* the page loop with the second slice starting one byte late
pageWriteDropByte(b, n) ==
    LET it  == n \div 4
        reg == PageFirst + it
    IN  CASE n % 4 = 0 -> <<0, reg, 16, 0>>
          [] n % 4 = 1 -> <<DataMode>> \o Slice(b, 0 + it * PageBytes, ChunkA + it * PageBytes)
          [] n % 4 = 2 -> <<DataMode>> \o Slice(b, ChunkA + 1 + it * PageBytes, ChunkB + it * PageBytes)
          [] OTHER     -> <<DataMode, b[ChunkB + it * PageBytes + 1],
                            b[ChunkB + 1 + it * PageBytes + 1]>>

\* the write the page loop of writeBuf issues as its n-th (n = 0..63): iteration
\* iter = n / 4 of the loop, statement n % 4 of its body
pageWrite(b, n) ==
    LET it  == n \div 4
        reg == PageFirst + it
    IN  CASE n % 4 = 0 -> <<0, reg, 16, 0>>
          [] n % 4 = 1 -> <<DataMode>> \o Slice(b, 0 + it * PageBytes, ChunkA + it * PageBytes)
          [] n % 4 = 2 -> <<DataMode>> \o Slice(b, ChunkA + it * PageBytes, ChunkB + it * PageBytes)
          [] OTHER     -> <<DataMode, b[ChunkB + it * PageBytes + 1],
                            b[ChunkB + 1 + it * PageBytes + 1]>>

\* the loop with reg < 0xBF as its condition
LoopWritesShort == 4 * (PageLast - PageFirst)

\* number of writes the loop issues: 4 per register PageFirst..PageLast
LoopWrites == 4 * (PageLast - PageFirst + 1)

\* DisplayBytes copying data over a copy of d.current
displayBufOver(data, cur) ==
    [i \in 1..Len(cur) |-> IF i <= Len(data) THEN data[i] ELSE cur[i]]

\* DisplayBytes: new := make([]byte, len(d.current)); copy data, stop at len(new)
displayBuf(data, cur) ==
    [i \in 1..Len(cur) |-> IF i <= Len(data) THEN data[i] ELSE 0]

(***************************************************************************)
(* Inputs of the public operations                                         *)
(***************************************************************************)
\* length of the short DisplayBytes input
ShortLen == 10
\* bytes by which the long DisplayBytes input exceeds the framebuffer
LongExtra == 2

DataInputs == { [i \in 1..ShortLen |-> i],
                [i \in 1..(BufLen + LongExtra) |-> (i % 5) + 1] }

LineInputs == { <<20, 10, 100, 10>> }

\* x, y and the bytes of the text: "!", a line feed, "!"
TextInputs == { <<0, 20, <<33, 10, 33>> >> }

\* what a status read can return: the reset sentinel or a configured controller
StatusBytes == { ResetStatus, 0 }

Procs == {1, 2}

(***************************************************************************)
(* State                                                                   *)
(***************************************************************************)
VARIABLES
    current,     \* d.current, the committed framebuffer
    handles,     \* open bus handles, each <<goroutine, function that opened it>>
    callers,     \* the goroutines that call the driver in this run
    stack,       \* per goroutine: its call stack of program points, innermost last
    buf,         \* per goroutine: the buffer its operation passes to writeBuf
    wpos,        \* per goroutine: writes issued so far by the page loop of writeBuf
    buffer,      \* per goroutine: what checkInit's handle.Read returned
    lastErr,     \* per goroutine: whether the call that just returned gave an error
    op,          \* per goroutine: the public operation in progress or last finished
    result,      \* per goroutine: "none" while running, then "ok", "err" or "panic"
    nops,        \* per goroutine: public operations called so far
    faults,      \* bus calls that failed so far
    resets,      \* status reads that found the controller reset so far
    phase,       \* "new" while newDisplay runs, then "ready", or "dead" if it failed
    oplimit,     \* public operations each caller may issue in this run
    faultlimit,  \* bus calls the environment may let fail in this run
    resetlimit,  \* status reads that may find the controller reset in this run
    skipAnim,    \* attr.SkipAnimation
    cancelled,   \* whether ctx of newDisplay is done
    ndI,         \* newDisplay: the counter i of its init loop
    animI,       \* initAnimation: the counter i of its frame loop
    animBuf,     \* initAnimation: its local buf
    aliased,     \* whether d.current and the local buf of initAnimation share storage
    pre,         \* history: d.current when the operation was called
    wire,        \* history: bus transfers of the operation, in order
    wbStart,     \* history: Len(wire) when the running writeBuf was entered
    loopStart,   \* history: Len(wire) when the running page loop began
    ncommit,     \* history: page loops the operation has completed
    xferFailed,  \* history: a Read or Write failed during the operation
    openFailed,  \* history: an OpenHandle failed during the operation
    rarg,        \* rasterizer called on its own: the four integers it is called with
    rbase,       \* rasterizer called on its own: the buffer the first call is given
    rcalls,      \* rasterizer called on its own: the functions called so far, in order
    rbuf,        \* rasterizer called on its own: the buffer the last call returned
    rtext        \* text renderer called on its own: the bytes of the text last rendered

ctor == <<phase, oplimit, faultlimit, resetlimit, resets, skipAnim, cancelled, ndI, animI,
          animBuf, aliased>>

vars == <<current, handles, callers, stack, buf, wpos, buffer, lastErr, op, result,
          nops, faults, resets, pre, wire, wbStart, loopStart, ncommit, xferFailed, openFailed,
          phase, oplimit, faultlimit, resetlimit, skipAnim, cancelled, ndI, animI, animBuf, aliased,
          rarg, rbase, rcalls, rbuf, rtext>>

hist == <<pre, wire, wbStart, loopStart, ncommit, xferFailed, openFailed>>

rast == <<rarg, rbase, rcalls, rbuf, rtext>>

NoOp == [name |-> "none", arg |-> <<>>]

Top(c) == stack[c][Len(stack[c])]

At(c, l) == stack[c] # <<>> /\ Top(c) = l

Idle(c) == stack[c] = <<>>

\* replace the innermost program point
Goto(c, l) == [stack EXCEPT ![c] = SubSeq(@, 1, Len(@) - 1) \o <<l>>]

\* a call: the caller resumes at cont, the callee starts at entry
CallFrom(c, cont, entry) == [stack EXCEPT ![c] = SubSeq(@, 1, Len(@) - 1) \o <<cont, entry>>]

\* return from the innermost function
Pop(c) == [stack EXCEPT ![c] = SubSeq(@, 1, Len(@) - 1)]

BusFree == handles = {}

CanFail == faults < faultlimit

Log(c, k, d) == [wire EXCEPT ![c] = Append(@, [k |-> k, d |-> d])]

InitCommon ==
    /\ current = blank
    /\ handles = {}
    /\ buf = [c \in Procs |-> <<>>]
    /\ wpos = [c \in Procs |-> 0]
    /\ buffer = [c \in Procs |-> <<>>]
    /\ lastErr = [c \in Procs |-> FALSE]
    /\ op = [c \in Procs |-> NoOp]
    /\ result = [c \in Procs |-> "none"]
    /\ nops = [c \in Procs |-> 0]
    /\ faults = 0
    /\ resets = 0
    /\ pre = [c \in Procs |-> <<>>]
    /\ wire = [c \in Procs |-> <<>>]
    /\ wbStart = [c \in Procs |-> 0]
    /\ loopStart = [c \in Procs |-> 0]
    /\ ncommit = [c \in Procs |-> 0]
    /\ xferFailed = [c \in Procs |-> FALSE]
    /\ openFailed = [c \in Procs |-> FALSE]
    /\ cancelled = FALSE
    /\ ndI = 0
    /\ animI = 0
    /\ animBuf = <<>>
    /\ aliased = FALSE

\* the rasterizer is not called on its own in a run of the driver
NoRaster ==
    /\ rarg = <<0, 0, 0, 0>>
    /\ rbase = <<>>
    /\ rcalls = <<>>
    /\ rbuf = <<>>
    /\ rtext = <<>>

\* what the environment does to a run: it lets bus calls fail, or it resets the
\* controller
Disturbances ==
    \/ faultlimit = MaxFaults /\ resetlimit = 0
    \/ faultlimit = 0 /\ resetlimit = MaxResets

\* a constructed driver with one caller
Init ==
    /\ InitCommon
    /\ NoRaster
    /\ callers = {1}
    /\ stack = [c \in Procs |-> <<>>]
    /\ phase = "ready"
    /\ oplimit = MaxOps
    /\ Disturbances
    /\ skipAnim = TRUE

(***************************************************************************)
(* Public operations                                                       *)
(***************************************************************************)
\* history kept per operation, reset when it is called
BeginOp(c, o) ==
    /\ op' = [op EXCEPT ![c] = o]
    /\ result' = [result EXCEPT ![c] = "none"]
    /\ pre' = [pre EXCEPT ![c] = current]
    /\ wire' = [wire EXCEPT ![c] = <<>>]
    /\ wbStart' = [wbStart EXCEPT ![c] = 0]
    /\ loopStart' = [loopStart EXCEPT ![c] = 0]
    /\ ncommit' = [ncommit EXCEPT ![c] = 0]
    /\ xferFailed' = [xferFailed EXCEPT ![c] = FALSE]
    /\ openFailed' = [openFailed EXCEPT ![c] = FALSE]
    /\ lastErr' = [lastErr EXCEPT ![c] = FALSE]
    /\ buffer' = [buffer EXCEPT ![c] = <<>>]
    /\ wpos' = [wpos EXCEPT ![c] = 0]

CanCall(c) ==
    /\ c \in callers /\ phase = "ready"
    /\ Idle(c) /\ result[c] # "panic" /\ nops[c] < oplimit

\* DisplayBytes, first statement: d.writeBuf(ctx, blank())
DisplayBytes(c) ==
    /\ CanCall(c)
    /\ \E data \in DataInputs :
          BeginOp(c, [name |-> "DisplayBytes", arg |-> data])
    /\ buf' = [buf EXCEPT ![c] = blank]
    /\ stack' = [stack EXCEPT ![c] = <<"DB_2", "WB_open", "CI_open">>]
    /\ UNCHANGED <<current, handles, callers, rast, nops, faults>>
    /\ UNCHANGED ctor

\* DisplayBytes, after the first writeBuf returned (its error is dropped):
\* build new from data and return d.writeBuf(ctx, new)
DisplayBytes2(c) ==
    /\ At(c, "DB_2")
    /\ buf' = [buf EXCEPT ![c] = displayBuf(op[c].arg, current)]
    /\ stack' = [stack EXCEPT ![c] = <<"OP_ret", "WB_open", "CI_open">>]
    /\ wbStart' = [wbStart EXCEPT ![c] = Len(wire[c])]
    /\ UNCHANGED <<current, handles, callers, rast, wpos, buffer, lastErr, op, result, nops,
                   faults, pre, wire, loopStart, ncommit, xferFailed, openFailed>>
    /\ UNCHANGED ctor

WriteString(c) ==
    /\ CanCall(c)
    /\ \E t \in TextInputs :
          /\ BeginOp(c, [name |-> "WriteString", arg |-> t])
          /\ buf' = [buf EXCEPT ![c] = writeString(t[1], t[2], t[3], current)]
    /\ stack' = [stack EXCEPT ![c] = <<"OP_ret", "WB_open", "CI_open">>]
    /\ UNCHANGED <<current, handles, callers, rast, nops, faults>>
    /\ UNCHANGED ctor

DrawLine(c) ==
    /\ CanCall(c)
    /\ \E l \in LineInputs :
          /\ BeginOp(c, [name |-> "DrawLine", arg |-> l])
          /\ buf' = [buf EXCEPT ![c] = writeLine(l[1], l[2], l[3], l[4], current)]
    /\ stack' = [stack EXCEPT ![c] = <<"OP_ret", "WB_open", "CI_open">>]
    /\ UNCHANGED <<current, handles, callers, rast, nops, faults>>
    /\ UNCHANGED ctor

\* Reset, first statement: d.initDisp(ctx)
Reset(c) ==
    /\ CanCall(c)
    /\ BeginOp(c, [name |-> "Reset", arg |-> <<>>])
    /\ stack' = [stack EXCEPT ![c] = <<"RS_2", "ID_open">>]
    /\ UNCHANGED <<current, handles, callers, rast, buf, nops, faults>>
    /\ UNCHANGED ctor

\* Reset, after initDisp returned (its error is dropped): return d.writeBuf(ctx, blank())
Reset2(c) ==
    /\ At(c, "RS_2")
    /\ buf' = [buf EXCEPT ![c] = blank]
    /\ stack' = [stack EXCEPT ![c] = <<"OP_ret", "WB_open", "CI_open">>]
    /\ wbStart' = [wbStart EXCEPT ![c] = Len(wire[c])]
    /\ UNCHANGED <<current, handles, callers, rast, wpos, buffer, lastErr, op, result, nops,
                   faults, pre, wire, loopStart, ncommit, xferFailed, openFailed>>
    /\ UNCHANGED ctor

\* the public operation returns what its last writeBuf returned
OpReturn(c) ==
    /\ At(c, "OP_ret")
    /\ stack' = [stack EXCEPT ![c] = <<>>]
    /\ result' = [result EXCEPT ![c] = IF lastErr[c] THEN "err" ELSE "ok"]
    /\ nops' = [nops EXCEPT ![c] = @ + 1]
    /\ UNCHANGED <<current, handles, callers, rast, buf, wpos, buffer, lastErr, op, faults, hist>>
    /\ UNCHANGED ctor

(***************************************************************************)
(* Device protocol: checkInit, initDisp, writeBuf                          *)
(***************************************************************************)
\* OpenHandle of the function at program point l; the bus admits one open handle,
\* so the call waits while another handle is open
OpenAt(c, l, fn, next) ==
    /\ At(c, l)
    /\ BusFree
    /\ \/ /\ handles' = handles \cup {<<c, fn>>}
          /\ stack' = Goto(c, next)
          /\ UNCHANGED <<lastErr, faults, openFailed>>
       \/ /\ CanFail
          /\ faults' = faults + 1
          /\ openFailed' = [openFailed EXCEPT ![c] = TRUE]
          /\ lastErr' = [lastErr EXCEPT ![c] = TRUE]
          /\ stack' = Pop(c)
          /\ UNCHANGED handles

\* checkInit: handle, err := d.bus.OpenHandle(d.addr); if err != nil { return err }
CheckInitOpen(c) ==
    /\ OpenAt(c, "CI_open", "checkInit", "CI_read")
    /\ UNCHANGED <<current, callers, rast, buf, wpos, buffer, op, result, nops,
                   pre, wire, wbStart, loopStart, ncommit, xferFailed>>
    /\ UNCHANGED ctor

\* checkInit: buffer, _ := handle.Read(ctx, 1).  The controller answers with a
\* status other than the sentinel, or (a disturbance) has lost its configuration
\* and answers 71, or the read fails and gives no byte, or a byte of any value
CheckInitRead(c) ==
    /\ At(c, "CI_read")
    /\ \/ \E v \in StatusBytes \ {ResetStatus} :
             /\ buffer' = [buffer EXCEPT ![c] = <<v>>]
             /\ UNCHANGED <<faults, resets, xferFailed>>
       \/ /\ resets < resetlimit
          /\ resets' = resets + 1
          /\ buffer' = [buffer EXCEPT ![c] = <<ResetStatus>>]
          /\ UNCHANGED <<faults, xferFailed>>
       \/ /\ CanFail
          /\ faults' = faults + 1
          /\ xferFailed' = [xferFailed EXCEPT ![c] = TRUE]
          /\ \E b \in {<<>>} \cup {<<v>> : v \in StatusBytes} :
                buffer' = [buffer EXCEPT ![c] = b]
          /\ UNCHANGED resets
    /\ wire' = Log(c, "read", buffer'[c])
    /\ stack' = Goto(c, "CI_close")
    /\ UNCHANGED <<current, handles, callers, rast, buf, wpos, lastErr, op, result, nops,
                   pre, wbStart, loopStart, ncommit, openFailed>>
    /\ UNCHANGED <<phase, oplimit, faultlimit, resetlimit, skipAnim, cancelled, ndI, animI,
                   animBuf, aliased>>

\* checkInit: err = handle.Close(); if err != nil { return err };
\* if buffer[0] == 71 { d.initDisp(ctx) }; return nil
CheckInitClose(c) ==
    /\ At(c, "CI_close")
    /\ handles' = handles \ {<<c, "checkInit">>}
    /\ \/ /\ buffer[c] = <<>>
          \* index out of range: the goroutine panics
          /\ stack' = [stack EXCEPT ![c] = <<>>]
          /\ result' = [result EXCEPT ![c] = "panic"]
          /\ phase' = IF phase = "new" THEN "dead" ELSE phase
          /\ UNCHANGED <<lastErr, faults>>
       \/ /\ buffer[c] # <<>>
          /\ buffer[c][1] = ResetStatus
          /\ stack' = CallFrom(c, "CI_ret", "ID_open")
          /\ UNCHANGED <<lastErr, faults, result, phase>>
       \/ /\ buffer[c] # <<>>
          /\ buffer[c][1] # ResetStatus
          /\ lastErr' = [lastErr EXCEPT ![c] = FALSE]
          /\ stack' = Pop(c)
          /\ UNCHANGED <<faults, result, phase>>
       \/ /\ CanFail
          /\ faults' = faults + 1
          /\ lastErr' = [lastErr EXCEPT ![c] = TRUE]
          /\ stack' = Pop(c)
          /\ UNCHANGED <<result, phase>>
    /\ UNCHANGED <<current, callers, rast, buf, wpos, buffer, op, nops, hist>>
    /\ UNCHANGED <<oplimit, faultlimit, resetlimit, resets, skipAnim, cancelled, ndI, animI, animBuf, aliased>>

\* checkInit: return nil, after initDisp returned (its error is dropped)
CheckInitReturn(c) ==
    /\ At(c, "CI_ret")
    /\ lastErr' = [lastErr EXCEPT ![c] = FALSE]
    /\ stack' = Pop(c)
    /\ UNCHANGED <<current, handles, callers, rast, buf, wpos, buffer, op, result, nops,
                   faults, hist>>
    /\ UNCHANGED ctor

\* initDisp: handle, err := d.bus.OpenHandle(d.addr); if err != nil { return err }
InitDispOpen(c) ==
    /\ OpenAt(c, "ID_open", "initDisp", "ID_w1")
    /\ UNCHANGED <<current, callers, rast, buf, wpos, buffer, op, result, nops,
                   pre, wire, wbStart, loopStart, ncommit, xferFailed>>
    /\ UNCHANGED ctor

\* a handle.Write whose error is dropped
WriteAt(c, data) ==
    /\ wire' = Log(c, "write", data)
    /\ \/ UNCHANGED <<faults, xferFailed>>
       \/ /\ CanFail
          /\ faults' = faults + 1
          /\ xferFailed' = [xferFailed EXCEPT ![c] = TRUE]

\* initDisp: the contrast, init and display-on writes, in order
InitDispWrite(c) ==
    /\ \E k \in 1..3 :
          /\ At(c, <<"ID_w1", "ID_w2", "ID_w3">>[k])
          /\ WriteAt(c, initWrites[k])
          /\ stack' = Goto(c, <<"ID_w2", "ID_w3", "ID_ret">>[k])
    /\ UNCHANGED <<current, handles, callers, rast, buf, wpos, buffer, lastErr, op, result,
                   nops, pre, wbStart, loopStart, ncommit, openFailed>>
    /\ UNCHANGED ctor

\* initDisp returning without closing its handle
InitDispReturnNoClose(c) ==
    /\ At(c, "ID_ret")
    /\ lastErr' = [lastErr EXCEPT ![c] = FALSE]
    /\ stack' = Pop(c)
    /\ UNCHANGED <<current, handles, callers, rast, buf, wpos, buffer, op, result, nops, faults,
                   hist>>
    /\ UNCHANGED ctor

\* initDisp: return nil, running the deferred handle.Close
InitDispReturn(c) ==
    /\ At(c, "ID_ret")
    /\ handles' = handles \ {<<c, "initDisp">>}
    /\ lastErr' = [lastErr EXCEPT ![c] = FALSE]
    /\ stack' = Pop(c)
    /\ UNCHANGED <<current, callers, rast, buf, wpos, buffer, op, result, nops, faults, hist>>
    /\ UNCHANGED ctor

\* writeBuf, after d.checkInit(ctx) returned (its error is dropped):
\* handle, err := d.bus.OpenHandle(d.addr); if err != nil { return err }
WriteBufOpen(c) ==
    /\ OpenAt(c, "WB_open", "writeBuf", "WB_loop")
    /\ wpos' = [wpos EXCEPT ![c] = 0]
    /\ loopStart' = [loopStart EXCEPT ![c] = Len(wire[c])]
    /\ UNCHANGED <<current, callers, rast, buf, buffer, op, result, nops,
                   pre, wire, wbStart, ncommit, xferFailed>>
    /\ UNCHANGED ctor

\* writeBuf: the next handle.Write of the page loop
WriteBufWrite(c) ==
    /\ At(c, "WB_loop")
    /\ wpos[c] < LoopWrites
    /\ WriteAt(c, pageWrite(buf[c], wpos[c]))
    /\ wpos' = [wpos EXCEPT ![c] = @ + 1]
    /\ UNCHANGED <<current, handles, callers, rast, stack, buf, buffer, lastErr, op, result,
                   nops, pre, wbStart, loopStart, ncommit, openFailed>>
    /\ UNCHANGED ctor

\* writeBuf, the loop done: d.current = buf; return nil, running the deferred
\* handle.Close
WriteBufReturn(c) ==
    /\ At(c, "WB_loop")
    /\ wpos[c] = LoopWrites
    /\ current' = buf[c]
    /\ handles' = handles \ {<<c, "writeBuf">>}
    /\ lastErr' = [lastErr EXCEPT ![c] = FALSE]
    /\ ncommit' = [ncommit EXCEPT ![c] = @ + 1]
    /\ stack' = Pop(c)
    \* a frame of initAnimation passes its local buf, which d.current then shares
    /\ aliased' = (Len(stack[c]) >= 2 /\ stack[c][Len(stack[c]) - 1] = "AN_next")
    /\ UNCHANGED <<callers, rast, buf, wpos, buffer, op, result, nops, faults,
                   pre, wire, wbStart, loopStart, xferFailed, openFailed,
                   phase, oplimit, faultlimit, resetlimit, resets, skipAnim, cancelled, ndI, animI, animBuf>>

(***************************************************************************)
(* Construction: newDisplay and initAnimation, run by goroutine 1          *)
(***************************************************************************)
\* history kept per protocol call of the constructor, reset when it is made
BeginUnit(c) ==
    /\ wire' = [wire EXCEPT ![c] = <<>>]
    /\ wbStart' = [wbStart EXCEPT ![c] = 0]
    /\ loopStart' = [loopStart EXCEPT ![c] = 0]
    /\ xferFailed' = [xferFailed EXCEPT ![c] = FALSE]
    /\ openFailed' = [openFailed EXCEPT ![c] = FALSE]
    /\ UNCHANGED <<pre, ncommit>>

\* newDisplay: i2cbus, err := buses.NewI2cBus(attr.I2CBus); if err != nil
\* { return nil, err }; d := &display{..., current: blank()}
NewDisplay ==
    /\ At(1, "ND_start")
    /\ \/ /\ stack' = Goto(1, "ND_init")
          /\ current' = blank
          /\ ndI' = 0
          /\ UNCHANGED <<phase, result, faults>>
       \/ /\ CanFail
          /\ faults' = faults + 1
          /\ stack' = [stack EXCEPT ![1] = <<>>]
          /\ phase' = "dead"
          /\ result' = [result EXCEPT ![1] = "err"]
          /\ UNCHANGED <<current, ndI>>
    /\ UNCHANGED <<handles, callers, rast, buf, wpos, buffer, lastErr, op, nops, hist,
                   oplimit, faultlimit, resetlimit, resets, skipAnim, cancelled, animI, animBuf, aliased>>

\* newDisplay: for i := 0; i < 4; i++ { d.initDisp(ctx) }
NewDisplayInit ==
    /\ At(1, "ND_init")
    /\ ndI < NumInits
    /\ ndI' = ndI + 1
    /\ stack' = CallFrom(1, "ND_init", "ID_open")
    /\ BeginUnit(1)
    /\ UNCHANGED <<current, handles, callers, rast, buf, wpos, buffer, lastErr, op, result,
                   nops, faults, phase, oplimit, faultlimit, resetlimit, resets, skipAnim, cancelled, animI, animBuf,
                   aliased>>

\* newDisplay, the init loop done: if !attr.SkipAnimation { d.initAnimation(ctx) };
\* initAnimation starts with buf := blank() and i := 1
NewDisplayAnim ==
    /\ At(1, "ND_init")
    /\ ndI = NumInits
    /\ IF skipAnim
       THEN /\ stack' = Goto(1, "ND_ret")
            /\ UNCHANGED <<animI, animBuf>>
       ELSE /\ stack' = CallFrom(1, "ND_ret", "AN_frame")
            /\ animI' = 1
            /\ animBuf' = blank
    /\ UNCHANGED <<current, handles, callers, rast, buf, wpos, buffer, lastErr, op, result,
                   nops, faults, hist, phase, oplimit, faultlimit, resetlimit, resets, skipAnim, cancelled, ndI, aliased>>

\* initAnimation, one pass of for i := 1; i < 15; i++: return if ctx is done, else
\* buf = writeFillRect(i*8, 20, 8, 24, buf), which draws into the storage of buf,
\* and d.writeBuf(ctx, buf)
AnimFrame ==
    /\ At(1, "AN_frame")
    /\ animI < AnimEnd
    /\ IF cancelled
       THEN /\ stack' = Pop(1)
            /\ UNCHANGED <<current, buf, animBuf, hist>>
       ELSE /\ animBuf' = writeFillRect(animI * 8, 20, 8, 24, animBuf)
            /\ current' = IF aliased THEN animBuf' ELSE current
            /\ buf' = [buf EXCEPT ![1] = animBuf']
            /\ stack' = [stack EXCEPT ![1] = <<"ND_ret", "AN_next", "WB_open", "CI_open">>]
            /\ BeginUnit(1)
    /\ UNCHANGED <<handles, callers, rast, wpos, buffer, lastErr, op, result, nops, faults,
                   phase, oplimit, faultlimit, resetlimit, resets, skipAnim, cancelled, ndI, animI, aliased>>

\* initAnimation: i++ after writeBuf returned (its error is dropped)
AnimNext ==
    /\ At(1, "AN_next")
    /\ animI' = animI + 1
    /\ stack' = Goto(1, "AN_frame")
    /\ UNCHANGED <<current, handles, callers, rast, buf, wpos, buffer, lastErr, op, result,
                   nops, faults, hist, phase, oplimit, faultlimit, resetlimit, resets, skipAnim, cancelled, ndI, animBuf,
                   aliased>>

\* initAnimation, the frame loop done: d.writeBuf(ctx, blank())
AnimBlank ==
    /\ At(1, "AN_frame")
    /\ animI = AnimEnd
    /\ buf' = [buf EXCEPT ![1] = blank]
    /\ stack' = [stack EXCEPT ![1] = <<"ND_ret", "AN_ret", "WB_open", "CI_open">>]
    /\ BeginUnit(1)
    /\ UNCHANGED <<current, handles, callers, rast, wpos, buffer, lastErr, op, result, nops,
                   faults, phase, oplimit, faultlimit, resetlimit, resets, skipAnim, cancelled, ndI, animI, animBuf,
                   aliased>>

\* initAnimation returns after its last writeBuf (its error is dropped)
AnimReturn ==
    /\ At(1, "AN_ret")
    /\ stack' = Pop(1)
    /\ UNCHANGED <<current, handles, callers, rast, buf, wpos, buffer, lastErr, op, result,
                   nops, faults, hist, ctor>>

\* newDisplay: return d, nil; the local buf of initAnimation and the ctx parameter
\* of newDisplay are gone (no public operation reads either)
NewDisplayReturn ==
    /\ At(1, "ND_ret")
    /\ stack' = [stack EXCEPT ![1] = <<>>]
    /\ phase' = "ready"
    /\ result' = [result EXCEPT ![1] = "ok"]
    /\ aliased' = FALSE
    /\ animBuf' = <<>>
    /\ animI' = 0
    /\ cancelled' = FALSE
    /\ UNCHANGED <<current, handles, callers, rast, buf, wpos, buffer, lastErr, op, nops,
                   faults, hist, oplimit, faultlimit, resetlimit, resets, skipAnim, ndI>>

\* the context passed to newDisplay is cancelled
Cancel ==
    /\ phase = "new"
    /\ ~cancelled
    /\ cancelled' = TRUE
    /\ UNCHANGED <<current, handles, callers, rast, stack, buf, wpos, buffer, lastErr, op,
                   result, nops, faults, hist, phase, oplimit, faultlimit, resetlimit, resets, skipAnim, ndI, animI,
                   animBuf, aliased>>

Next ==
    \/ \E c \in callers : DisplayBytes(c)
    \/ \E c \in callers : DisplayBytes2(c)
    \/ \E c \in callers : WriteString(c)
    \/ \E c \in callers : DrawLine(c)
    \/ \E c \in callers : Reset(c)
    \/ \E c \in callers : Reset2(c)
    \/ \E c \in callers : OpReturn(c)
    \/ \E c \in callers : CheckInitOpen(c)
    \/ \E c \in callers : CheckInitRead(c)
    \/ \E c \in callers : CheckInitClose(c)
    \/ \E c \in callers : CheckInitReturn(c)
    \/ \E c \in callers : InitDispOpen(c)
    \/ \E c \in callers : InitDispWrite(c)
    \/ \E c \in callers : InitDispReturn(c)
    \/ \E c \in callers : WriteBufOpen(c)
    \/ \E c \in callers : WriteBufWrite(c)
    \/ \E c \in callers : WriteBufReturn(c)

Spec == Init /\ [][Next]_vars

\* construction from the call of newDisplay, then the constructed driver in use
MaxOpsNew == 1

InitNew ==
    /\ InitCommon
    /\ NoRaster
    /\ callers = {1}
    /\ phase = "new"
    /\ oplimit = MaxOpsNew
    /\ Disturbances
    /\ skipAnim \in BOOLEAN
    /\ stack = [c \in Procs |-> IF c = 1 THEN <<"ND_start">> ELSE <<>>]

NextNew ==
    \/ NewDisplay \/ NewDisplayInit \/ NewDisplayAnim
    \/ AnimFrame \/ AnimNext \/ AnimBlank \/ AnimReturn
    \/ NewDisplayReturn
    \/ Cancel
    \/ Next

SpecNew == InitNew /\ [][NextNew]_vars

\* a constructed driver called from two goroutines at once, on a bus that does
\* not fail
MaxOpsConc == 1

InitConc ==
    /\ InitCommon
    /\ NoRaster
    /\ callers = Procs
    /\ stack = [c \in Procs |-> <<>>]
    /\ phase = "ready"
    /\ oplimit = MaxOpsConc
    /\ faultlimit = 0
    /\ resetlimit = MaxResets
    /\ skipAnim = TRUE

SpecConc == InitConc /\ [][Next]_vars

(***************************************************************************)
(* The rasterizer called on its own: writePixel, writeLine and             *)
(* writeFillRect are pure functions of their integer arguments and the     *)
(* buffer; a run draws the arguments and the buffer, then calls them.      *)
(***************************************************************************)
\* calls made in a run
MaxCalls == 2
\* longest extent, along either axis, of a line drawn in a run
MaxSpan == 100

\* first and second argument: x, y of a pixel, x0, y0 of a line, x, y of a rectangle
ArgX == { -200, -1, 5, 100, 130 }
ArgY == { -3, 10, 63, 70 }
\* third and fourth argument: x1, y1 of a line, w, h of a rectangle
ArgX1 == { -1, 5, 30, 60 }
ArgY1 == { -3, 4, 10, 40 }

\* the buffers a first call is given: blank() and one with bits set in every byte row
BaseBufs == { blank, [i \in 1..BufLen |-> (i * 7) % 256] }

\* the driver part of the state, which the rasterizer does not touch
drv == <<current, handles, callers, stack, buf, wpos, buffer, lastErr, op, result,
         nops, faults, hist, ctor>>

InitRaster ==
    /\ InitCommon
    /\ callers = {}
    /\ stack = [c \in Procs |-> <<>>]
    /\ phase = "raster"
    /\ oplimit = 0
    /\ faultlimit = 0
    /\ resetlimit = 0
    /\ skipAnim = TRUE
    /\ rarg \in ArgX \X ArgY \X ArgX1 \X ArgY1
    /\ rbase \in BaseBufs
    /\ rcalls = <<>>
    /\ rbuf = rbase
    /\ rtext = <<>>

\* buf = writePixel(x, y, buf)
CallWritePixel ==
    /\ phase = "raster" /\ Len(rcalls) < MaxCalls
    /\ rbuf' = writePixel(rarg[1], rarg[2], rbuf)
    /\ rcalls' = Append(rcalls, "writePixel")
    /\ UNCHANGED <<rarg, rbase, rtext, drv>>

\* buf = writeLine(x0, y0, x1, y1, buf)
CallWriteLine ==
    /\ phase = "raster" /\ Len(rcalls) < MaxCalls
    /\ AbsInt(rarg[3] - rarg[1]) <= MaxSpan /\ AbsInt(rarg[4] - rarg[2]) <= MaxSpan
    /\ rbuf' = writeLine(rarg[1], rarg[2], rarg[3], rarg[4], rbuf)
    /\ rcalls' = Append(rcalls, "writeLine")
    /\ UNCHANGED <<rarg, rbase, rtext, drv>>

\* buf = writeFillRect(x, y, w, h, buf)
CallWriteFillRect ==
    /\ phase = "raster" /\ Len(rcalls) < MaxCalls
    /\ rbuf' = writeFillRect(rarg[1], rarg[2], rarg[3], rarg[4], rbuf)
    /\ rcalls' = Append(rcalls, "writeFillRect")
    /\ UNCHANGED <<rarg, rbase, rtext, drv>>

NextRaster == CallWritePixel \/ CallWriteLine \/ CallWriteFillRect

SpecRaster == InitRaster /\ [][NextRaster]_vars

(***************************************************************************)
(* The text renderer called on its own: writeString is a pure function of  *)
(* the pen position, the bytes of the text and the buffer.                 *)
(***************************************************************************)
\* pen positions: on the panel, near its right edge, left of it
TextX == { 0, 120, -5 }
TextY == { 20, 70 }

\* texts, as bytes: control bytes, 0x7F and bytes above it only; "!" DEL "!";
\* 0x1F "!" 0x80 " " "!"; "!!"; "A!~!"; " !"
RasterTexts == { <<10, 9, 127, 128, 255, 31>>,
                 <<33, 127, 33>>,
                 <<31, 33, 128, 32, 33>>,
                 <<33, 33>>,
                 <<65, 33, 126, 33>>,
                 <<32, 33>> }

InitText ==
    /\ InitCommon
    /\ callers = {}
    /\ stack = [c \in Procs |-> <<>>]
    /\ phase = "raster"
    /\ oplimit = 0
    /\ faultlimit = 0
    /\ resetlimit = 0
    /\ skipAnim = TRUE
    /\ rarg \in TextX \X TextY \X {0} \X {0}
    /\ rbase \in BaseBufs
    /\ rcalls = <<>>
    /\ rbuf = rbase
    /\ rtext = <<>>

\* buf = writeString(x, y, text, buf)
CallWriteString ==
    /\ phase = "raster" /\ Len(rcalls) < MaxCalls
    /\ \E t \in RasterTexts :
          /\ rtext' = t
          /\ rbuf' = writeString(rarg[1], rarg[2], t, rbuf)
    /\ rcalls' = Append(rcalls, "writeString")
    /\ UNCHANGED <<rarg, rbase, drv>>

NextText == CallWriteString

SpecText == InitText /\ [][NextText]_vars

(***************************************************************************)
(* Properties                                                              *)
(***************************************************************************)
\* goroutine c has called a public operation and it has returned
Returned(c) == c \in callers /\ Idle(c) /\ op[c].name # "none" /\ result[c] \in {"ok", "err"}

ReturnedOk(c) == Returned(c) /\ result[c] = "ok"

\* a writeBuf of goroutine c has just returned nil to its caller
JustCommitted(c) ==
    /\ stack[c] # <<>>
    /\ Top(c) \in {"DB_2", "OP_ret", "AN_next", "AN_ret"}
    /\ ~lastErr[c]

IsPageSelect(e) ==
    e.k = "write" /\ Len(e.d) = 4 /\ e.d[1] = 0 /\ e.d[2] >= 176 /\ e.d[2] <= 191

IsPageData(e) == e.k = "write" /\ e.d # <<>> /\ e.d[1] = 64

IsInitWrite(e) == e.k = "write" /\ ~IsPageSelect(e) /\ ~IsPageData(e)

\* what one public operation makes of a framebuffer when it runs alone
Apply(o, cur) ==
    CASE o.name = "DisplayBytes" -> [i \in 1..1024 |-> IF i <= Len(o.arg) THEN o.arg[i] ELSE 0]
      [] o.name = "WriteString"  -> writeString(o.arg[1], o.arg[2], o.arg[3], cur)
      [] o.name = "DrawLine"     -> writeLine(o.arg[1], o.arg[2], o.arg[3], o.arg[4], cur)
      [] o.name = "Reset"        -> [i \in 1..1024 |-> 0]
      [] OTHER                   -> cur

\* C1: concurrent public operations are serialized. The display struct holds no lock;
\* the only exclusion is the bus's, which lasts from one OpenHandle to its Close, so
\* the page writes of two commits do not interleave, but an operation reads the
\* committed framebuffer, renders and commits in separate steps. Serialized
\* operations would mean: when two goroutines have each called one operation on a
\* fresh driver and both have returned without error, the committed framebuffer is
\* what running the two operations one after the other, in one of the two orders,
\* leaves.
C1_Serialized ==
    (callers = {1, 2} /\ ReturnedOk(1) /\ ReturnedOk(2))
        => current \in { Apply(op[2], Apply(op[1], blank)),
                         Apply(op[1], Apply(op[2], blank)) }

\* C2: when a public operation returns an error (the only error the code returns is a
\* failed OpenHandle in writeBuf), the committed framebuffer is what it was when the
\* operation was called, and no page write was sent for the buffer that failed.
C2_OpenFailureKeepsFramebuffer ==
    \A c \in callers :
        (Returned(c) /\ result[c] = "err")
            => /\ current = pre[c]
               /\ \A i \in (wbStart[c] + 1)..Len(wire[c]) :
                     ~IsPageSelect(wire[c][i]) /\ ~IsPageData(wire[c][i])

\* C3: when a Read or Write on an open handle failed during a public operation, the
\* operation returns an error and the committed framebuffer is still the one from
\* before the operation.
C3_TransferErrorSurfaced ==
    \A c \in callers :
        (Returned(c) /\ xferFailed[c]) => (result[c] = "err" /\ current = pre[c])

\* the n-th write (n = 0..63) of a commit of framebuffer b, as the protocol states it
C4_Expected(b, n) ==
    LET p == n \div 4
    IN  CASE n % 4 = 0 -> <<0, 176 + p, 16, 0>>
          [] n % 4 = 1 -> <<64>> \o SubSeq(b, 64 * p + 1, 64 * p + 31)
          [] n % 4 = 2 -> <<64>> \o SubSeq(b, 64 * p + 32, 64 * p + 62)
          [] OTHER     -> <<64>> \o SubSeq(b, 64 * p + 63, 64 * p + 64)

\* the first n transfers after position from of the log of c are the first n writes
\* of a commit of b
C4_Prefix(c, from, b, n) ==
    /\ Len(wire[c]) >= from + n
    /\ \A i \in 0..(n - 1) :
          wire[c][from + i + 1] = [k |-> "write", d |-> C4_Expected(b, i)]

\* C4: a commit sends, for the pages 0xB0..0xBF in ascending order, the page select
\* and then data transfers of 31, 31 and 2 pixel bytes, each prefixed by 0x40: while
\* the page loop runs, the transfers since it began are exactly the writes it should
\* have issued so far and nothing else, and a finished commit is exactly 64 writes.
C4_PageWriteSequence ==
    \A c \in callers :
        /\ At(c, "WB_loop")
              => /\ wpos[c] <= 64
                 /\ Len(wire[c]) = loopStart[c] + wpos[c]
                 /\ C4_Prefix(c, loopStart[c], buf[c], wpos[c])
        /\ JustCommitted(c)
              => /\ Len(wire[c]) = loopStart[c] + 64
                 /\ C4_Prefix(c, loopStart[c], buf[c], 64)

C4_Witness ==
    \E c \in callers :
        /\ At(c, "WB_loop") /\ wpos[c] = 64
        /\ buf[c] # blank
        /\ op[c].name = "DrawLine"

\* the pixel bytes the log of c holds for page p of the commit that began after
\* position from: the payloads of its three data transfers without the 0x40 prefix
C5_PageBytes(c, from, p) ==
    Tail(wire[c][from + 4 * p + 2].d) \o Tail(wire[c][from + 4 * p + 3].d)
        \o Tail(wire[c][from + 4 * p + 4].d)

\* C5: after a commit of buf that succeeded, the committed framebuffer equals buf and,
\* for every page p in 0..15, the pixel bytes sent for the page, concatenated, are
\* buf[64p .. 64p+63].
C5_CommitRoundTrip ==
    \A c \in callers :
        JustCommitted(c)
            => /\ current = buf[c]
               /\ Len(current) = 1024
               /\ \A p \in 0..15 :
                     C5_PageBytes(c, loopStart[c], p) = SubSeq(buf[c], 64 * p + 1, 64 * p + 64)

C5_Witness ==
    \E c \in callers :
        /\ JustCommitted(c) /\ Top(c) = "OP_ret"
        /\ op[c].name = "DisplayBytes" /\ Len(op[c].arg) > 1024
        /\ \E i \in 1..1024 : current[i] # 0

\* C6: every commit is preceded by a status probe: when the page loop of a writeBuf
\* runs, the transfers since that writeBuf was entered begin with a 1-byte status
\* read; if it returned 0x47 the three writes of the initialization sequence follow
\* it before the first page write, and otherwise no initialization write does.
C6_ProbeBeforeCommit ==
    \A c \in callers :
        At(c, "WB_loop")
            => LET probe == SubSeq(wire[c], wbStart[c] + 1, loopStart[c])
               IN  /\ probe # <<>>
                   /\ probe[1].k = "read" /\ Len(probe[1].d) = 1
                   /\ IF probe[1].d[1] = 71
                      THEN Tail(probe) = [i \in 1..3 |-> [k |-> "write", d |-> initWrites[i]]]
                      ELSE Tail(probe) = <<>>

\* C7: bus handles are transient: at most one is open at any moment, a handle is open
\* only while the function that opened it is still running in the goroutine that
\* opened it (so it is closed on every way out of checkInit, initDisp and writeBuf),
\* no function opens a handle while its goroutine holds one, and when a public
\* operation or newDisplay has returned no handle is open.
C7_HandlesTransient ==
    /\ Cardinality(handles) <= 1
    /\ \A h \in handles :
          /\ stack[h[1]] # <<>>
          /\ h[2] = "checkInit" => Top(h[1]) \in {"CI_read", "CI_close"}
          /\ h[2] = "initDisp" => Top(h[1]) \in {"ID_w1", "ID_w2", "ID_w3", "ID_ret"}
          /\ h[2] = "writeBuf" => Top(h[1]) = "WB_loop"
    /\ \A c \in callers :
          /\ (stack[c] # <<>> /\ Top(c) \in {"CI_open", "ID_open", "WB_open"})
                => ~\E h \in handles : h[1] = c
          /\ Idle(c) => ~\E h \in handles : h[1] = c

C7_Witness ==
    /\ phase = "ready" /\ ~skipAnim
    /\ Returned(1) /\ result[1] = "err"
    /\ handles = {}

\* C8: after a successful DisplayBytes(data) the committed framebuffer is 1024 bytes
\* long, its byte i is data[i] for every i below min(len(data), 1024), and every
\* byte from len(data) on is zero, whatever the framebuffer held before.
C8_DisplayBytesResult ==
    \A c \in callers :
        (ReturnedOk(c) /\ op[c].name = "DisplayBytes")
            => /\ Len(current) = 1024
               /\ \A i \in 1..1024 :
                     current[i] = IF i <= Len(op[c].arg) THEN op[c].arg[i] ELSE 0

C8_Witness ==
    \E c \in callers :
        /\ ReturnedOk(c) /\ op[c].name = "DisplayBytes"
        /\ Len(op[c].arg) < 1024
        /\ \E i \in (Len(op[c].arg) + 1)..1024 : pre[c][i] # 0

C10_ResetInitializesAndBlanks ==
    \A c \in callers :
        op[c].name = "Reset"
            => /\ At(c, "WB_loop")
                    => /\ Len(wire[c]) >= 3
                       /\ SubSeq(wire[c], 1, 3)
                            = [i \in 1..3 |-> [k |-> "write", d |-> initWrites[i]]]
                       /\ \A i \in (loopStart[c] + 1)..Len(wire[c]) :
                             IsPageData(wire[c][i])
                                => \A j \in 2..Len(wire[c][i].d) : wire[c][i].d[j] = 0
               /\ ReturnedOk(c) => current = [i \in 1..1024 |-> 0]

\* some bit set in framebuffer a is clear in framebuffer b
BitsCleared(a, b) ==
    \E i \in 1..Len(a) : \E k \in 0..7 : BitSet(a[i], k) /\ ~BitSet(b[i], k)

\* C11: WriteString and DrawLine are additive: when one of them has returned without
\* error, every bit that was set in the committed framebuffer when it was called is
\* still set; and whenever a step clears a set bit of the committed framebuffer, the
\* goroutine taking the step is running Reset or DisplayBytes.
C11_Additive ==
    /\ [](\A c \in callers :
            (ReturnedOk(c) /\ op[c].name \in {"WriteString", "DrawLine"})
                => ~BitsCleared(pre[c], current))
    /\ [][(phase = "ready" /\ current' # current /\ BitsCleared(current, current'))
            => \E c \in callers : /\ stack'[c] # stack[c]
                                  /\ op[c].name \in {"Reset", "DisplayBytes"}]_vars

\* the run made exactly the calls cs, in order
Called(cs) == phase = "raster" /\ rcalls = cs

\* C12 as stated: setPixel(buf, x, y) = setPixel(buf, x + 64, y + 128) for the
\* coordinates x, y the pixel primitive is called with.
C12_WrapPeriodic ==
    Called(<<"writePixel">>)
        => rbuf = writePixel(rarg[1] + 64, rarg[2] + 128, rbase)

\* C12, amended: the first coordinate has period 128 and the second period 64:
\* setPixel(buf, x, y) = setPixel(buf, x + 128, y) = setPixel(buf, x, y + 64)
\* = setPixel(buf, x + 128, y + 64), and the same with the periods subtracted.
C12_WrapPeriod ==
    Called(<<"writePixel">>)
        => /\ rbuf = writePixel(rarg[1] + 128, rarg[2], rbase)
           /\ rbuf = writePixel(rarg[1], rarg[2] + 64, rbase)
           /\ rbuf = writePixel(rarg[1] + 128, rarg[2] + 64, rbase)
           /\ rbuf = writePixel(rarg[1] - 128, rarg[2] - 64, rbase)

C12_Witness ==
    /\ Called(<<"writePixel">>)
    /\ rarg[1] < 0 /\ rarg[2] > 63
    /\ rbuf # rbase

\* C13: writeLine does not depend on the order of the endpoints: on the same buffer,
\* the line from (x0, y0) to (x1, y1) and the line from (x1, y1) to (x0, y0) give
\* the same buffer.
C13_LineSymmetric ==
    Called(<<"writeLine">>)
        => rbuf = writeLine(rarg[3], rarg[4], rarg[1], rarg[2], rbase)

\* a steep line of negative slope whose first endpoint is the right-hand one
C13_Witness ==
    /\ Called(<<"writeLine">>)
    /\ AbsInt(rarg[4] - rarg[2]) > AbsInt(rarg[3] - rarg[1])
    /\ rarg[1] > rarg[3] /\ rarg[2] < rarg[4]
    /\ rbuf # rbase

\* C14: writePixel(x, y, buf) sets bit y' % 8 of byte x' + (y' / 8) * 64, where x' is
\* y reduced to 0..63 and y' is x reduced to 0..127; the byte lies inside the buffer,
\* and every other bit and the length of the buffer are unchanged.
C14_PixelIndex ==
    Called(<<"writePixel">>)
        => LET xp  == rarg[2] % 64
               yp  == rarg[1] % 128
               idx == xp + (yp \div 8) * 64
           IN  /\ idx \in 0..1023
               /\ Len(rbuf) = 1024
               /\ BitSet(rbuf[idx + 1], yp % 8)
               /\ \A i \in 1..1024 :
                     /\ rbuf[i] \in 0..255
                     /\ \A k \in 0..7 :
                           (i # idx + 1 \/ k # yp % 8)
                               => (BitSet(rbuf[i], k) <=> BitSet(rbase[i], k))

\* a pixel left of and above the panel, on a blank buffer
C14_Witness ==
    /\ Called(<<"writePixel">>)
    /\ rarg[1] < -128 /\ rarg[2] > 63
    /\ rbase = blank /\ rbuf # blank

\* newDisplay has returned the driver and no public operation has been called yet
JustConstructed == phase = "ready" /\ Idle(1) /\ op[1] = NoOp /\ nops[1] = 0

\* C15: once the bus object exists, newDisplay does not fail: it runs the init loop
\* NumInits = 4 times whatever initDisp returns and returns the driver without error,
\* and the committed framebuffer of the driver it returns is blank.
C15_Construction ==
    /\ ndI > 0 => (phase # "dead" /\ result[1] # "panic")
    /\ JustConstructed
          => /\ ndI = NumInits
             /\ result[1] = "ok"
             /\ current = blank

\* C16: the startup animation honours cancellation at frame boundaries: a commit of
\* the animation that returns has written all 16 pages whether or not ctx was
\* cancelled meanwhile, and when the animation stands between two commits with ctx
\* cancelled, its next step is to return: it starts no further commit.
C16_CancelAtFrameBoundary ==
    /\ [](JustCommitted(1) /\ Top(1) \in {"AN_next", "AN_ret"}
            => /\ Len(wire[1]) = loopStart[1] + 64
               /\ C4_Prefix(1, loopStart[1], buf[1], 64))
    /\ [][(cancelled /\ At(1, "AN_frame") /\ stack'[1] # stack[1])
            => stack'[1] = Pop(1)[1]]_vars

\* C17: write-then-commit: the committed framebuffer changes only in the step in
\* which a writeBuf that has issued all its page writes adopts its buffer, and while
\* the animation is writing a frame to the bus the committed framebuffer does not
\* share storage with that frame.
C17_WriteThenCommit ==
    /\ [][current' # current
            => \E c \in callers : /\ At(c, "WB_loop") /\ wpos[c] = 64
                                  /\ stack'[c] # stack[c]
                                  /\ current' = buf[c]]_vars
    /\ [](aliased => ~(\E i \in 1..Len(stack[1]) - 1 : stack[1][i] = "AN_next"))

\* the pixel at column x (0..127) and row y (0..63) of the panel is set in buf
PixelOn(b, x, y) == BitSet(b[y + (x \div 8) * 64 + 1], x % 8)

\* the pixels of the panel set in buf
PixelsOn(b) == {p \in (0..127) \X (0..63) : PixelOn(b, p[1], p[2])}

\* C18: writePixel is idempotent: calling it a second time with the same coordinates
\* on the buffer the first call returned gives the buffer of the first call.
C18_PixelIdempotent ==
    Called(<<"writePixel", "writePixel">>)
        => rbuf = writePixel(rarg[1], rarg[2], rbase)

C18_Witness ==
    /\ Called(<<"writePixel", "writePixel">>)
    /\ rbase # blank /\ rbuf # rbase

\* v and w are equal or neighbours on an axis of the given span that wraps
Adjacent(v, w, span) == (w - v) % span \in {0, 1, span - 1}

\* C19: writeLine plots max(|x1-x0|, |y1-y0|) + 1 points, one for each coordinate of
\* the major axis between the endpoints inclusive, both endpoints among them, the
\* minor coordinate changing by at most 1 from one point to the next; a line whose
\* endpoints coincide is that one writePixel.  The points are read from the pixels
\* of a blank buffer, for lines no longer than the panel, so that no two of them
\* wrap onto the same pixel.
C19_LinePoints ==
    Called(<<"writeLine">>)
        => LET x0 == rarg[1]
               y0 == rarg[2]
               x1 == rarg[3]
               y1 == rarg[4]
               dx == AbsInt(x1 - x0)
               dy == AbsInt(y1 - y0)
               n  == IF dx > dy THEN dx ELSE dy
               lo == IF dy > dx THEN (IF y0 < y1 THEN y0 ELSE y1)
                                ELSE (IF x0 < x1 THEN x0 ELSE x1)
               \* the rows (columns) set in column (row) m of the major axis
               Minor(m) == IF dy > dx THEN {u \in 0..127 : PixelOn(rbuf, u, m % 64)}
                                      ELSE {v \in 0..63 : PixelOn(rbuf, m % 128, v)}
               span == IF dy > dx THEN 128 ELSE 64
           IN  /\ (dx = 0 /\ dy = 0) => rbuf = writePixel(x0, y0, rbase)
               /\ (rbase = blank /\ dx <= 127 /\ dy <= 63)
                     => /\ Cardinality(PixelsOn(rbuf)) = n + 1
                        /\ PixelOn(rbuf, x0 % 128, y0 % 64)
                        /\ PixelOn(rbuf, x1 % 128, y1 % 64)
                        /\ \A m \in lo..(lo + n) : Cardinality(Minor(m)) = 1
                        /\ \A m \in lo..(lo + n - 1) :
                              \A v \in Minor(m) : \A w \in Minor(m + 1) :
                                  Adjacent(v, w, span)

\* a steep line on a blank buffer that leaves the panel on the left
C19_Witness ==
    /\ Called(<<"writeLine">>)
    /\ rbase = blank
    /\ rarg[3] < 0 /\ rarg[1] > 0
    /\ AbsInt(rarg[4] - rarg[2]) > AbsInt(rarg[3] - rarg[1])
    /\ Cardinality(PixelsOn(rbuf)) > 1

\* C20: writeFillRect(x, y, w, h, buf) draws w vertical lines of length h, in the
\* columns x .. x+w-1, each starting at row y: on a blank buffer, for a rectangle
\* inside the panel, the pixels set are those of the columns x .. x+w-1 in the rows
\* y .. y+h-1, w*h in number.
C20_FillRect ==
    (/\ Called(<<"writeFillRect">>)
     /\ rbase = blank
     /\ rarg[1] >= 0 /\ rarg[2] >= 0 /\ rarg[3] > 0 /\ rarg[4] > 0
     /\ rarg[1] + rarg[3] <= 128 /\ rarg[2] + rarg[4] <= 64)
        => /\ PixelsOn(rbuf) = (rarg[1]..(rarg[1] + rarg[3] - 1))
                                  \X (rarg[2]..(rarg[2] + rarg[4] - 1))
           /\ Cardinality(PixelsOn(rbuf)) = rarg[3] * rarg[4]

\* a byte with a glyph: 0x20..0x7E
Printable(b) == b >= 32 /\ b <= 126

\* the text without the bytes that have no glyph
Strip(t) == SelectSeq(t, Printable)

\* the sum of the advances of the glyphs of the printable bytes of t
RECURSIVE PenAdvance(_)
PenAdvance(t) ==
    IF t = <<>> THEN 0
    ELSE (IF Printable(Head(t)) THEN chars(Head(t) - 32)[4] ELSE 0) + PenAdvance(Tail(t))

\* C21: writeString skips every byte outside 0x20..0x7E without plotting and without
\* advancing the pen: a text of such bytes only leaves the buffer as it was, a text
\* renders as the text without those bytes does, and each printable byte advances
\* the pen by the advance of its glyph, so that rendering a text is rendering any
\* prefix of it and then the rest with the pen moved by the advances of the
\* printable bytes of the prefix.
C21_TextSkips ==
    Called(<<"writeString">>)
        => LET x == rarg[1]
               y == rarg[2]
               t == rtext
           IN  /\ Len(rbuf) = Len(rbase)
               /\ Strip(t) = <<>> => rbuf = rbase
               /\ rbuf = writeString(x, y, Strip(t), rbase)
               /\ \A k \in 0..Len(t) :
                     rbuf = writeString(x + PenAdvance(SubSeq(t, 1, k)), y,
                                        SubSeq(t, k + 1, Len(t)),
                                        writeString(x, y, SubSeq(t, 1, k), rbase))

\* a text with a glyph that has pixels after a byte that has no glyph, on a blank buffer
C21_Witness ==
    /\ Called(<<"writeString">>)
    /\ rbase = blank /\ rbuf # blank
    /\ \E i \in 1..Len(rtext) : \E j \in 1..Len(rtext) :
          i < j /\ ~Printable(rtext[i]) /\ rtext[j] = 33

====
